---- MODULE Spec2Model ----
(***************************************************************************)
(* A model of the agent-to-agent mailbox of mcp_agent/integrations:        *)
(* A2ACommunicator (a2a_integration.py) over A2AMessage envelopes          *)
(* (a2a_protocols.py), run by one asyncio event loop (CPython 3.11).       *)
(*                                                                         *)
(* One action is one run of a coroutine between two suspension points.     *)
(* asyncio.Queue() is unbounded, so `await queue.put(m)` never suspends    *)
(* and reduces to put_nowait; queue.get() suspends on a getter future      *)
(* while the queue is empty; asyncio.wait_for runs queue.get() inline when *)
(* timeout is None, cancels it unstarted when timeout <= 0, and otherwise  *)
(* runs it as an inner task raced against a timer.                         *)
(***************************************************************************)
EXTENDS Integers, Sequences, FiniteSets, TLC

\* ------------------------------------------------------------- bounds
MaxSends == 2
MaxReceives == 2
MaxTimeout == 1
Slack == 1
MaxAgents == 2

\* ------------------------------------------------------------- inputs
AgentIds == {"A", "B"}

\* agent ids are str: the empty string is one
StrIds == AgentIds \cup {""}
CallbackIds == {"c1", "c2"}

\* The registrations made: two callbacks compete for "B", one serves "A".
RegisterInputs == {<<"A", "c1">>, <<"B", "c1">>, <<"B", "c2">>}

\* timeout=None of receive_message
NoTimeout == -1
Timeouts == {NoTimeout} \cup (0..MaxTimeout)

\* The field values send_message is called with; oid is the identity of the
\* Python object, given at the call.
EnvelopeInputs ==
    { [sender_agent_id |-> "A", recipient_agent_id |-> "B",
       message_type |-> "task_request", payload |-> "TaskRequestPayload"],
      [sender_agent_id |-> "B", recipient_agent_id |-> "A",
       message_type |-> "task_response", payload |-> "TaskResponsePayload"],
      [sender_agent_id |-> "B", recipient_agent_id |-> "B",
       message_type |-> "status", payload |-> "dict"] }

A2AMessage(fields, oid) ==
    [oid |-> oid,
     sender_agent_id |-> fields.sender_agent_id,
     recipient_agent_id |-> fields.recipient_agent_id,
     message_type |-> fields.message_type,
     payload |-> fields.payload]

\* Python's None as a result of receive_message
None ==
    [oid |-> 0, sender_agent_id |-> "", recipient_agent_id |-> "",
     message_type |-> "", payload |-> ""]

\* No envelope is on the wire.
NoWire == [stage |-> "none"]

\* Python's None where a memory is expected.
NoMemory == [obj |-> 0, user_id |-> "", content |-> <<>>, messages |-> <<>>]

\* No call was made on the memory manager yet.
NoCall == [op |-> "none", id |-> "", result |-> NoMemory, results |-> <<>>,
           limit |-> 0, user_id |-> ""]

NoReply == [last |-> NoCall, before |-> NoCall]

\* The most clients that call rate_limit at a time.
MaxCallers == 2

\* The key has no time to live (Redis TTL -1).
NoExpiry == -1

\* The key does not exist.
NoKey == [exists |-> FALSE, value |-> 0, ttl |-> NoExpiry]

\* A client that is not inside rate_limit.
Idle == [pc |-> "idle", count |-> 0, ret |-> "none"]

\* os.environ has no entry FRAMEWORK.
Unset == "unset"

\* GET /health was not asked yet.
NoHealth == [asked |-> FALSE, framework |-> "", inforce |-> ""]

\* No request was made yet.
NoRequest == [op |-> "none", id |-> "", status |-> 0, listed |-> <<>>, ran |-> <<>>]

VARIABLES
    queues,      \* self.queues: agent id -> asyncio.Queue (_queue, _getters)
    callbacks,   \* self.callbacks: agent id -> callback
    sends,       \* the send_message calls made so far, in call order: msg is
                 \* the envelope as it was passed, obj the fields of that
                 \* object now (reg and first are history: the callback last
                 \* registered for the recipient, and whether the recipient
                 \* was new)
    recvs,       \* the receive_message calls made so far, in call order
    cbLog,       \* history: the callback invocations, in order
    enqLog,      \* history: the puts, in order
    retLog,      \* history: the receive_message returns, in order
    lastReg,     \* history: the callback last passed to register_callback
    mixed,       \* history: agent ids with a receive issued before a send was over
    shared,      \* history: agent ids that had two receive calls open at once
    wire,        \* an envelope on its way through serialization and back
    agents,      \* the agents AgentFactory created: agent id -> its a2a
    comms,       \* the A2ACommunicator instances made, in order: their queues
    store,       \* MemorySaverManager: the list self.saver holds
    made,        \* history: the number of memories add_memory has saved
    reply,       \* history: the last call on the manager and the one before
    counter,     \* Redis: the key ratelimit:<key>, its value and time to live
    callers,     \* the clients inside RedisManager.rate_limit, and what each
                 \* last returned
    granted,     \* history: the calls that returned True since the key was
                 \* last absent
    agents_db,   \* api/agent_endpoints.py: agent id -> AgentConfig (its name)
    teams_db,    \* api/agent_endpoints.py: team id -> AgentTeam (its agents)
    db_reply,    \* history: the last request to api/agent_endpoints.py and
                 \* its HTTP status
    agents_store,  \* api.py: agent id -> agent (its name)
    teams_store,   \* api.py: team id -> team data (its agents)
    uuids,         \* the number of uuid.uuid4() values drawn
    store_reply,   \* history: the last request to api.py, its HTTP status and
                   \* the agents it ran
    environ,       \* custom_server.py: os.environ, its entry FRAMEWORK
    posted,        \* history: the mode of the last POST /config/mode that
                   \* succeeded
    health,        \* history: the last answer of GET /health
    invocations    \* the calls of invoke_graph, in order of their start

vars ==
    <<queues, callbacks, sends, recvs, cbLog, enqLog, retLog, lastReg, mixed,
      shared, wire, agents, comms, store, made, reply,
      counter, callers, granted,
      agents_db, teams_db, db_reply, agents_store, teams_store, uuids,
      store_reply, environ, posted, health, invocations>>

\* The variables of one A2ACommunicator, and those outside it.
communicator ==
    <<queues, callbacks, sends, recvs, cbLog, enqLog, retLog, lastReg, mixed,
      shared>>

\* The variables of the memory manager.
memory == <<store, made, reply>>

\* The variables of the subsystems other than the communicator, the envelope
\* on the wire and the agent factory.
\* The variables of the rate limiter.
limiter == <<counter, callers, granted>>

\* The variables of the in-memory storage of api/agent_endpoints.py.
endpoints == <<agents_db, teams_db, db_reply>>

\* The variables of the in-memory store of api.py.
api == <<agents_store, teams_store, uuids, store_reply>>

\* The variables of custom_server.py.
server == <<environ, posted, health, invocations>>

others == <<memory, limiter, endpoints, api, server>>

outside == <<wire, agents, comms, others>>

\* ------------------------------------------------------------- asyncio.Queue
EmptyQueue == [items |-> <<>>, getters |-> <<>>]

setdefaultForget(qs, key) ==
    key :> (IF key \in DOMAIN qs THEN qs[key] ELSE EmptyQueue)

setdefaultAlwaysNew(qs, key) ==
    [k \in DOMAIN qs \cup {key} |-> IF k = key THEN EmptyQueue ELSE qs[k]]

\* dict.setdefault(key, asyncio.Queue())
setdefault(qs, key) ==
    IF key \in DOMAIN qs THEN qs ELSE qs @@ (key :> EmptyQueue)

PutLifo(items, m) == <<m>> \o items

PutNotAwaited(items, m) == items

PutUnlessNew(items, m) == IF items = <<>> THEN items ELSE Append(items, m)

PutBounded(items, m) == IF Len(items) >= 1 THEN items ELSE Append(items, m)

\* Line 21, await queue.put(message): Queue._put is deque.append
Put(items, m) == Append(items, m)

\* Queue._wakeup_next: pop getters until one is not done; that one is woken.
RECURSIVE SkipDone(_, _)
SkipDone(gs, rs) ==
    IF gs = <<>> THEN <<>>
    ELSE IF rs[Head(gs)].get = "waiting" THEN gs
    ELSE SkipDone(Tail(gs), rs)

WakeGetters(gs, rs) ==
    LET rest == SkipDone(gs, rs) IN IF rest = <<>> THEN <<>> ELSE Tail(rest)

WakeNone(gs, rs) == rs

WakeRecvs(gs, rs) ==
    LET rest == SkipDone(gs, rs)
    IN  IF rest = <<>> THEN rs ELSE [rs EXCEPT ![Head(rest)].get = "woken"]

\* ------------------------------------------------------------- send_message
RoutingKeySender(m) == m.sender_agent_id

\* message.recipient_agent_id, the key of lines 20, 23 and 24.
RoutingKey(m) == m.recipient_agent_id

InvocationsTwice(cbs, m, call) ==
    IF RoutingKey(m) \in DOMAIN cbs
    THEN LET e == [cb |-> cbs[RoutingKey(m)], key |-> RoutingKey(m),
                   msg |-> m, call |-> call]
         IN  <<e, e>>
    ELSE <<>>

\* Lines 23-24: the callback invocations of one send_message.
Invocations(cbs, m, call) ==
    IF RoutingKey(m) \in DOMAIN cbs
    THEN << [cb |-> cbs[RoutingKey(m)], key |-> RoutingKey(m),
             msg |-> m, call |-> call] >>
    ELSE <<>>

SendPcNoAwait(cb) == IF cb = "raised" THEN "raised" ELSE "returned"

SendPcSwallow(cb) == IF cb = "running" THEN "callback" ELSE "returned"

\* Line 24, `await`: where send_message stands for a state of its callback.
SendPc(cb) ==
    IF cb = "running" THEN "callback"
    ELSE IF cb = "raised" THEN "raised"
    ELSE "returned"

\* What a callback does up to its first suspension point, and how it ends
\* after one.
CallbackOutcomes == {"running", "returned", "raised"}
CallbackReturns == {"running", "returned"}

Outstanding(a) ==
    \E r \in 1..Len(recvs) : recvs[r].agent = a /\ recvs[r].pc # "returned"

Issued(a) == \E r \in 1..Len(recvs) : recvs[r].agent = a

\* History: agent id a was in no send, receive or registration so far.
Unseen(a) == a \notin DOMAIN queues /\ lastReg[a] = "none"

send_message(fields, outcome) ==
    /\ Len(sends) < MaxSends
    /\ outcome \in CallbackOutcomes
    /\ LET call == Len(sends) + 1
           m == A2AMessage(fields, call)
           key == RoutingKey(m)
           qs == setdefault(queues, key)
           q == qs[key]
           invs == Invocations(callbacks, m, call)
           cb == IF invs = <<>> THEN "none" ELSE outcome
       IN  /\ invs = <<>> => outcome = "returned"
           /\ queues' = [qs EXCEPT ![key] =
                            [items |-> Put(q.items, m),
                             getters |-> WakeGetters(q.getters, recvs)]]
           /\ recvs' = WakeRecvs(q.getters, recvs)
           /\ enqLog' = Append(enqLog, [key |-> key, msg |-> m])
           /\ cbLog' = cbLog \o invs
           /\ sends' = Append(sends, [msg |-> m, cb |-> cb, pc |-> SendPc(cb),
                                      reg |-> lastReg[m.recipient_agent_id],
                                      obj |-> m, first |-> Unseen(key)])
           /\ mixed' = IF Issued(m.recipient_agent_id)
                       THEN mixed \cup {m.recipient_agent_id} ELSE mixed
    /\ UNCHANGED <<outside, callbacks, retLog, lastReg, shared>>

\* The suspended callback of send call i returns or raises.
callback_done(i, outcome) ==
    /\ i \in 1..Len(sends)
    /\ sends[i].cb = "running"
    /\ outcome \in {"returned", "raised"}
    /\ sends' = [sends EXCEPT ![i].cb = outcome, ![i].pc = SendPc(outcome)]
    /\ UNCHANGED <<outside, queues, callbacks, recvs, cbLog, enqLog, retLog, lastReg, mixed,
                   shared>>

\* ------------------------------------------------------------- register_callback
RegisterKeepFirst(cbs, agent_id, callback) ==
    IF agent_id \in DOMAIN cbs THEN cbs
    ELSE cbs @@ (agent_id :> callback)

\* Line 42: self.callbacks[agent_id] = callback
Register(cbs, agent_id, callback) ==
    IF agent_id \in DOMAIN cbs THEN [cbs EXCEPT ![agent_id] = callback]
    ELSE cbs @@ (agent_id :> callback)

register_callback_replay(agent_id, callback) ==
    /\ callbacks' = Register(callbacks, agent_id, callback)
    /\ lastReg' = [lastReg EXCEPT ![agent_id] = callback]
    /\ cbLog' = cbLog \o
           (IF agent_id \in DOMAIN queues
            THEN [k \in 1..Len(queues[agent_id].items) |->
                     [cb |-> callback, key |-> agent_id,
                      msg |-> queues[agent_id].items[k],
                      call |-> queues[agent_id].items[k].oid]]
            ELSE <<>>)
    /\ UNCHANGED <<outside, queues, sends, recvs, enqLog, retLog, mixed, shared>>

register_callback(agent_id, callback) ==
    /\ callbacks' = Register(callbacks, agent_id, callback)
    /\ lastReg' = [lastReg EXCEPT ![agent_id] = callback]
    /\ UNCHANGED <<outside, queues, sends, recvs, cbLog, enqLog, retLog, mixed, shared>>

\* ------------------------------------------------------------- receive_message
\* A receive_message call: get is the state of its queue.get() coroutine
\* ("notstarted", "waiting" on a pending getter future, "woken" by a put,
\* "waitcancel" with its getter future cancelled, "got" an item, "cancelled"),
\* must_cancel is Task._must_cancel of the inner task, timer is the
\* call_later handle of wait_for, elapsed the time since the call, ret the
\* kind of result and result the value returned.
SendOpen(a) ==
    \E i \in 1..Len(sends) :
        sends[i].msg.recipient_agent_id = a /\ sends[i].pc = "callback"

CatchesNothing(exc) == FALSE

\* Line 35: except asyncio.TimeoutError
Catches(exc) == exc = "TimeoutError"

\* Lines 32-36: the return of receive_message when wait_for raised exc.
Returned(rec, exc) ==
    IF Catches(exc)
    THEN [rec EXCEPT !.pc = "returned", !.ret = "None", !.result = None]
    ELSE [rec EXCEPT !.pc = "returned", !.ret = "raised", !.result = None]

\* Line 34: return message
ReturnedMessage(rec, m) ==
    [rec EXCEPT !.pc = "returned", !.ret = "message", !.result = m,
                !.get = "got"]

\* asyncio.wait_for(fut, timeout): `return await fut` when timeout is None;
\* for timeout <= 0 the future is cancelled unless it is already done; else it
\* becomes a task raced against loop.call_later(timeout, ...).
WaitForMode(timeout) ==
    IF timeout = NoTimeout THEN "inline"
    ELSE IF timeout <= 0 THEN "cancel"
    ELSE "timer"

NewCall(agent_id, timeout) ==
    [agent |-> agent_id, timeout |-> timeout, get |-> "notstarted",
     must_cancel |-> FALSE, timer |-> "none", pc |-> "await", elapsed |-> 0,
     ret |-> "pending", result |-> None]

PopRight(items) ==
    [item |-> items[Len(items)], rest |-> SubSeq(items, 1, Len(items) - 1)]

PopPeek(items) == [item |-> Head(items), rest |-> items]

PopTwo(items) ==
    [item |-> Head(items),
     rest |-> IF Len(items) > 1 THEN Tail(Tail(items)) ELSE <<>>]

\* Queue._get: deque.popleft
PopLeft(items) == [item |-> Head(items), rest |-> Tail(items)]

GetRunAfterCallback(q, r, rec) ==
    IF q.items = <<>> \/ SendOpen(rec.agent)
    THEN [q |-> [q EXCEPT !.getters = Append(q.getters, r)],
          rec |-> [rec EXCEPT !.get = "waiting"]]
    ELSE [q |-> [q EXCEPT !.items = PopLeft(q.items).rest],
          rec |-> IF WaitForMode(rec.timeout) = "inline"
                  THEN ReturnedMessage(rec, PopLeft(q.items).item)
                  ELSE [rec EXCEPT !.get = "got",
                                   !.result = PopLeft(q.items).item]]

\* One run of queue.get() from its start or from `await getter`, for call r
\* whose record is rec: `while self.empty()` parks a new getter, else
\* get_nowait pops the head. Gives the queue and the record after it.
GetRun(q, r, rec) ==
    IF q.items = <<>>
    THEN [q |-> [q EXCEPT !.getters = Append(q.getters, r)],
          rec |-> [rec EXCEPT !.get = "waiting"]]
    ELSE [q |-> [q EXCEPT !.items = PopLeft(q.items).rest],
          rec |-> IF WaitForMode(rec.timeout) = "inline"
                  THEN ReturnedMessage(rec, PopLeft(q.items).item)
                  ELSE [rec EXCEPT !.get = "got",
                                   !.result = PopLeft(q.items).item]]

LogReturn(r, rec) == IF rec.pc = "returned" THEN Append(retLog, r) ELSE retLog

receive_message(agent_id, timeout) ==
    /\ Len(recvs) < MaxReceives
    /\ LET r == Len(recvs) + 1
           qs == setdefault(queues, agent_id)
           mode == WaitForMode(timeout)
           new == NewCall(agent_id, timeout)
           run == GetRun(qs[agent_id], r, new)
           rec == IF mode = "inline" THEN run.rec
                  ELSE IF mode = "cancel"
                       THEN [new EXCEPT !.must_cancel = TRUE, !.pc = "cancelwait"]
                  ELSE [new EXCEPT !.timer = "armed"]
       IN  /\ queues' = IF mode = "inline"
                        THEN [qs EXCEPT ![agent_id] = run.q] ELSE qs
           /\ recvs' = Append(recvs, rec)
           /\ retLog' = LogReturn(r, rec)
           /\ mixed' = IF SendOpen(agent_id) THEN mixed \cup {agent_id} ELSE mixed
           /\ shared' = IF Outstanding(agent_id)
                        THEN shared \cup {agent_id} ELSE shared
    /\ UNCHANGED <<outside, callbacks, sends, cbLog, enqLog, lastReg>>

\* queue.get() of call r takes its first step (inner task) or resumes after
\* its getter future got a result.
get_step(r) ==
    /\ r \in 1..Len(recvs)
    /\ recvs[r].pc # "returned"
    /\ recvs[r].get \in {"notstarted", "woken"}
    /\ ~recvs[r].must_cancel
    /\ LET a == recvs[r].agent
           run == GetRun(queues[a], r, recvs[r])
       IN  /\ queues' = [queues EXCEPT ![a] = run.q]
           /\ recvs' = [recvs EXCEPT ![r] = run.rec]
           /\ retLog' = LogReturn(r, run.rec)
    /\ UNCHANGED <<outside, callbacks, sends, cbLog, enqLog, lastReg, mixed, shared>>

RemoveGetter(gs, r) == SelectSeq(gs, LAMBDA g : g # r)

\* CancelledError is thrown into queue.get() of call r: before its first
\* step it ends at once; at `await getter` the except clause cancels the
\* getter, removes it from _getters, and passes a wake-up it had been given
\* on to the next getter if the queue is not empty.
get_cancelled(r) ==
    /\ r \in 1..Len(recvs)
    /\ recvs[r].pc # "returned"
    /\ \/ recvs[r].get \in {"notstarted", "woken"} /\ recvs[r].must_cancel
       \/ recvs[r].get = "waitcancel"
    /\ LET a == recvs[r].agent
           q == queues[a]
           gs == RemoveGetter(q.getters, r)
           pass == recvs[r].get = "woken" /\ q.items # <<>>
           rs == [recvs EXCEPT ![r].get = "cancelled", ![r].must_cancel = FALSE]
       IN  /\ queues' = [queues EXCEPT ![a].getters =
                            IF pass THEN WakeGetters(gs, rs) ELSE gs]
           /\ recvs' = IF pass THEN WakeRecvs(gs, rs) ELSE rs
    /\ UNCHANGED <<outside, callbacks, sends, cbLog, enqLog, retLog, lastReg, mixed, shared>>

\* loop.call_later(timeout, ...): the handle runs once timeout has elapsed.
TimerDue(rec) == rec.elapsed >= rec.timeout

\* The timeout handle of call r runs and releases the waiter of wait_for. It
\* was scheduled after the first step of the inner task.
TimerRuns(r) ==
    /\ r \in 1..Len(recvs)
    /\ recvs[r].pc = "await"
    /\ recvs[r].timer = "armed"
    /\ recvs[r].get # "notstarted"
    /\ recvs' = [recvs EXCEPT ![r].timer = "fired"]
    /\ UNCHANGED <<outside, queues, callbacks, sends, cbLog, enqLog, retLog, lastReg, mixed,
                   shared>>

\* With time tracked (tick), the handle runs when it is due.
timer_fire(r) == r \in 1..Len(recvs) /\ TimerDue(recvs[r]) /\ TimerRuns(r)

\* With time not tracked, any amount of it may have passed since the call.
timer_expire(r) == TimerRuns(r)

\* wait_for of call r resumes after the timer: a finished inner task gives
\* its result, a running one is cancelled (Task.cancel cancels the future it
\* waits on, or sets _must_cancel when that future is already done).
wait_for_timeout(r) ==
    /\ r \in 1..Len(recvs)
    /\ recvs[r].pc = "await"
    /\ recvs[r].timer = "fired"
    /\ recvs[r].get \in {"waiting", "woken"}
    /\ recvs' = [recvs EXCEPT
                    ![r].pc = "cancelwait",
                    ![r].get = IF @ = "waiting" THEN "waitcancel" ELSE @,
                    ![r].must_cancel = (recvs[r].get = "woken")]
    /\ UNCHANGED <<outside, queues, callbacks, sends, cbLog, enqLog, retLog, lastReg, mixed,
                   shared>>

\* wait_for of call r resumes with its inner task finished: the item it got
\* is returned; a cancelled task becomes TimeoutError.
wait_for_return(r) ==
    /\ r \in 1..Len(recvs)
    /\ recvs[r].pc \in {"await", "cancelwait"}
    /\ WaitForMode(recvs[r].timeout) # "inline"
    /\ recvs[r].get \in {"got", "cancelled"}
    /\ recvs' = [recvs EXCEPT ![r] =
                    IF @.get = "got" THEN ReturnedMessage(@, @.result)
                    ELSE Returned(@, "TimeoutError")]
    /\ retLog' = Append(retLog, r)
    /\ UNCHANGED <<outside, queues, callbacks, sends, cbLog, enqLog, lastReg, mixed, shared>>

\* Time passes for the open calls that have a timeout. The loop runs what is
\* ready within Slack of its due time.
Timed(r) == recvs[r].timeout # NoTimeout /\ recvs[r].pc # "returned"

tick ==
    /\ \E r \in 1..Len(recvs) : Timed(r)
    /\ \A r \in 1..Len(recvs) : Timed(r) => recvs[r].elapsed < recvs[r].timeout + Slack
    /\ recvs' = [r \in 1..Len(recvs) |->
                    IF Timed(r) THEN [recvs[r] EXCEPT !.elapsed = @ + 1]
                    ELSE recvs[r]]
    /\ UNCHANGED <<outside, queues, callbacks, sends, cbLog, enqLog, retLog, lastReg, mixed,
                   shared>>

\* ------------------------------------------------------------- specification
Init ==
    /\ queues = <<>>
    /\ callbacks = <<>>
    /\ sends = <<>>
    /\ recvs = <<>>
    /\ cbLog = <<>>
    /\ enqLog = <<>>
    /\ retLog = <<>>
    /\ lastReg = [a \in StrIds |-> "none"]
    /\ mixed = {}
    /\ shared = {}
    /\ wire = NoWire
    /\ agents = <<>>
    /\ comms = <<>>
    /\ store = <<>>
    /\ made = 0
    /\ reply = NoReply
    /\ counter = NoKey
    /\ callers = [c \in 1..MaxCallers |-> Idle]
    /\ granted = 0
    /\ agents_db = <<>>
    /\ teams_db = <<>>
    /\ db_reply = NoRequest
    /\ agents_store = <<>>
    /\ teams_store = <<>>
    /\ uuids = 0
    /\ store_reply = NoRequest
    /\ environ = Unset
    /\ posted = "none"
    /\ health = NoHealth
    /\ invocations = <<>>

\* The steps of the receive_message calls but for the timer.
Receives ==
    \/ \E a \in AgentIds, t \in Timeouts : receive_message(a, t)
    \/ \E r \in 1..MaxReceives : get_step(r)
    \/ \E r \in 1..MaxReceives : get_cancelled(r)
    \/ \E r \in 1..MaxReceives : wait_for_timeout(r)
    \/ \E r \in 1..MaxReceives : wait_for_return(r)

Next ==
    \/ \E f \in EnvelopeInputs, o \in CallbackReturns : send_message(f, o)
    \/ \E i \in 1..MaxSends : callback_done(i, "returned")
    \/ \E reg \in RegisterInputs : register_callback(reg[1], reg[2])
    \/ Receives
    \/ \E r \in 1..MaxReceives : timer_expire(r)

Spec == Init /\ [][Next]_vars

\* The communicator with time tracked and no callback registered.
TimedNext ==
    \/ \E f \in EnvelopeInputs : send_message(f, "returned")
    \/ Receives
    \/ \E r \in 1..MaxReceives : timer_fire(r)
    \/ tick

TimedSpec == Init /\ [][TimedNext]_vars

\* The communicator with receive_message called without a timeout, and the
\* event loop running every coroutine that is ready.
BlockingNext ==
    \/ \E f \in EnvelopeInputs, o \in CallbackReturns : send_message(f, o)
    \/ \E i \in 1..MaxSends : callback_done(i, "returned")
    \/ \E reg \in RegisterInputs : register_callback(reg[1], reg[2])
    \/ \E a \in AgentIds : receive_message(a, NoTimeout)
    \/ \E r \in 1..MaxReceives : get_step(r)

BlockingSpec ==
    /\ Init
    /\ [][BlockingNext]_vars
    /\ \A r \in 1..MaxReceives : WF_vars(get_step(r))

\* ------------------------------------------------------------- histories
\* The messages send_message was called with for recipient a, in call order.
SendOrder(a) ==
    LET to == SelectSeq(sends, LAMBDA c : c.msg.recipient_agent_id = a)
    IN  [k \in 1..Len(to) |-> to[k].msg]

\* The receive_message(a, ...) calls, in call order.
RECURSIVE CallsOn(_, _)
CallsOn(a, n) ==
    IF n = 0 THEN <<>>
    ELSE IF recvs[n].agent = a THEN Append(CallsOn(a, n - 1), n)
    ELSE CallsOn(a, n - 1)

ReceiveCalls(a) == CallsOn(a, Len(recvs))

\* The messages receive_message(a, ...) returned, in the order of the returns.
ReturnOrder(a) ==
    LET rs == SelectSeq(retLog,
                        LAMBDA r : recvs[r].agent = a /\ recvs[r].ret = "message")
    IN  [k \in 1..Len(rs) |-> recvs[rs[k]].result]

IsPrefix(s, t) == Len(s) <= Len(t) /\ \A k \in 1..Len(s) : s[k] = t[k]

Untimed(a) == \A r \in 1..Len(recvs) : recvs[r].agent = a => recvs[r].timeout = NoTimeout

\* ------------------------------------------------------------- claims
\* C1: when every send_message to R is over before the first
\* receive_message(R) is issued, the k-th receive_message(R) call that returns
\* returns the k-th message sent to R.
C1_FifoPerRecipient ==
    \A a \in AgentIds :
        (a \notin mixed /\ Untimed(a)) =>
            \A k \in 1..Len(ReceiveCalls(a)) :
                LET r == ReceiveCalls(a)[k]
                IN  recvs[r].pc = "returned" =>
                        /\ k <= Len(SendOrder(a))
                        /\ recvs[r].ret = "message"
                        /\ recvs[r].result = SendOrder(a)[k]

\* Two messages were sent to "B" by different senders, then two receives
\* returned them.
C1_Witness ==
    /\ "B" \notin mixed
    /\ Untimed("B")
    /\ Len(SendOrder("B")) = 2
    /\ SendOrder("B")[1].sender_agent_id # SendOrder("B")[2].sender_agent_id
    /\ Len(ReceiveCalls("B")) = 2
    /\ \A r \in 1..Len(recvs) : recvs[r].ret = "message"

\* C2: for a recipient whose receive calls never overlap, the messages
\* returned so far are, in the order of their return, a prefix of the messages
\* in the order send_message was called, under every interleaving of sends,
\* callbacks, timeouts and receives.
C2_SendOrderDelivery ==
    \A a \in AgentIds :
        a \notin shared => IsPrefix(ReturnOrder(a), SendOrder(a))

\* Sends with a suspended callback interleaved with two receives that have a
\* timeout: the first ran out, the second returned the first message.
C2_Witness ==
    /\ "B" \in mixed
    /\ "B" \notin shared
    /\ Len(ReturnOrder("B")) = 1
    /\ Len(recvs) = 2
    /\ \A r \in 1..Len(recvs) : recvs[r].agent = "B" /\ recvs[r].timeout > 0
    /\ recvs[1].ret = "None"
    /\ \E i \in 1..Len(sends) : sends[i].cb = "running"

\* The callback invocations made by send call i.
InvocationsOf(i) == SelectSeq(cbLog, LAMBDA e : e.call = i)

\* The puts made by send call i.
PutsOf(i) == SelectSeq(enqLog, LAMBDA e : e.msg.oid = sends[i].msg.oid)

\* C3: a send_message made while a callback is registered for its recipient
\* invokes that callback exactly once, with the envelope that was enqueued;
\* a send_message made while none is registered invokes nothing.
C3_CallbackOncePerSend ==
    \A i \in 1..Len(sends) :
        IF sends[i].reg = "none"
        THEN InvocationsOf(i) = <<>>
        ELSE /\ Len(InvocationsOf(i)) = 1
             /\ InvocationsOf(i)[1].cb = sends[i].reg
             /\ Len(PutsOf(i)) = 1
             /\ InvocationsOf(i)[1].msg = PutsOf(i)[1].msg
             /\ InvocationsOf(i)[1].msg = sends[i].msg

\* c1 was registered for "B" and each of the two sends that followed invoked
\* it once, with its own envelope.
C3_Witness ==
    /\ Len(sends) = 2
    /\ \A i \in 1..2 : sends[i].msg.recipient_agent_id = "B" /\ sends[i].reg = "c1"
    /\ Len(cbLog) = 2
    /\ cbLog[1].msg.oid = 1
    /\ cbLog[2].msg.oid = 2

\* The messages of recipient a that are in its queue or were taken from it.
Queued(a) ==
    IF a \in DOMAIN queues
    THEN {queues[a].items[k] : k \in 1..Len(queues[a].items)}
    ELSE {}

Taken(a) ==
    {recvs[r].result : r \in {x \in 1..Len(recvs) :
                                recvs[x].agent = a /\ recvs[x].get = "got"}}

Range(seq) == {seq[k] : k \in 1..Len(seq)}

\* C4: a message that was pushed to a callback is also in the queue of its
\* recipient until a receive_message takes it: when the callback ran for each
\* of the n messages sent to Y, the n messages are those queued for Y or taken
\* by a receive_message(Y), and with the sends over before the receives, the
\* k-th receive_message(Y) returns the k-th of them.
C4_CallbackDoesNotConsume ==
    \A a \in AgentIds :
        LET n == Len(SendOrder(a))
            pushed == SelectSeq(cbLog, LAMBDA e : e.key = a)
        IN  (\A i \in 1..Len(sends) :
                sends[i].msg.recipient_agent_id = a => sends[i].reg # "none")
            => /\ Len(pushed) = n
               /\ Range(SendOrder(a)) = Queued(a) \cup Taken(a)
               /\ Cardinality(Queued(a)) + Cardinality(Taken(a)) = n
               /\ (a \notin mixed /\ Untimed(a)) =>
                     \A k \in 1..Len(ReceiveCalls(a)) :
                        recvs[ReceiveCalls(a)[k]].pc = "returned" =>
                            /\ k <= n
                            /\ recvs[ReceiveCalls(a)[k]].result = pushed[k].msg

\* The callback of "B" ran for two sends, and two receives still returned both.
C4_Witness ==
    /\ Len(sends) = 2
    /\ \A i \in 1..2 :
          /\ sends[i].msg.recipient_agent_id = "B"
          /\ sends[i].cb = "returned"
    /\ Len(cbLog) = 2
    /\ Len(recvs) = 2
    /\ recvs[1].result = sends[1].msg
    /\ recvs[2].result = sends[2].msg
    /\ recvs[2].pc = "returned"

\* C8: the callback of a send_message is started only with the message
\* already put in the queue, and send_message has not returned (or raised)
\* while its callback is running.
C8_SendStepOrder ==
    \A i \in 1..Len(sends) :
        /\ InvocationsOf(i) # <<>> =>
              \E e \in Range(enqLog) :
                  e.msg = sends[i].msg /\ e.key = sends[i].msg.recipient_agent_id
        /\ sends[i].cb = "running" => sends[i].pc = "callback"
        /\ sends[i].pc = "returned" => sends[i].cb \in {"none", "returned"}
        /\ InvocationsOf(i) # <<>> => sends[i].cb # "none"

\* A callback is suspended: its message is in the queue already and its
\* send_message has not returned.
C8_Witness ==
    \E i \in 1..Len(sends) :
        /\ sends[i].cb = "running"
        /\ sends[i].pc = "callback"
        /\ sends[i].msg \in Queued(sends[i].msg.recipient_agent_id)

\* C9: the callback table holds for each agent id exactly the callback last
\* registered for it, and a send_message invokes no callback but the one last
\* registered for its recipient when it started, at most once.
C9_LastRegistrationWins ==
    /\ DOMAIN callbacks = {a \in AgentIds : lastReg[a] # "none"}
    /\ \A a \in DOMAIN callbacks : callbacks[a] = lastReg[a]
    /\ \A i \in 1..Len(sends) :
          /\ Len(InvocationsOf(i)) <= 1
          /\ \A e \in Range(InvocationsOf(i)) : e.cb = sends[i].reg

\* c1 was registered for "B" and served a send, then c2 replaced it and the
\* next send invoked c2.
C9_Witness ==
    /\ Len(sends) = 2
    /\ sends[1].reg = "c1"
    /\ sends[2].reg = "c2"
    /\ sends[2].msg.recipient_agent_id = "B"
    /\ Len(cbLog) = 2
    /\ cbLog[2].cb = "c2"

\* A waiting receive_message has no step to take, and the queue of an agent
\* with one receive at a time is empty while that receive waits.
C5_Suspended ==
    \A r \in 1..Len(recvs) :
        (recvs[r].timeout = NoTimeout /\ recvs[r].get = "waiting") =>
            /\ ~ENABLED get_step(r)
            /\ recvs[r].agent \notin shared => queues[recvs[r].agent].items = <<>>

\* A waiting receive_message is changed by nothing but a send_message to its
\* agent.
C5_StaysSuspended ==
    \A r \in 1..Len(recvs) :
        ( /\ recvs[r].timeout = NoTimeout
          /\ recvs[r].get = "waiting"
          /\ ~ ( /\ Len(sends') > Len(sends)
                 /\ sends'[Len(sends')].msg.recipient_agent_id = recvs[r].agent ) )
        => (Len(recvs') >= r /\ recvs'[r] = recvs[r])

\* Call r is open, alone on its agent, and message i is at the head of the
\* queue.
C5_Waits(r, i) ==
    /\ r <= Len(recvs)
    /\ i <= Len(sends)
    /\ recvs[r].timeout = NoTimeout
    /\ recvs[r].pc # "returned"
    /\ recvs[r].agent \notin shared
    /\ queues[recvs[r].agent].items # <<>>
    /\ Head(queues[recvs[r].agent].items) = sends[i].msg

C5_Served(r, i) ==
    /\ r <= Len(recvs)
    /\ i <= Len(sends)
    /\ \/ recvs[r].agent \in shared
       \/ recvs[r].pc = "returned" /\ recvs[r].result = sends[i].msg

\* C5: a receive_message without timeout that waits on an empty queue takes
\* no step and stays as it is until a send_message to its agent; and if it is
\* the only open receive of its agent, it eventually returns the message that
\* send put at the head of the queue.
C5_BlockingReceive ==
    /\ []C5_Suspended
    /\ [][C5_StaysSuspended]_vars
    /\ \A r \in 1..MaxReceives, i \in 1..MaxSends :
          C5_Waits(r, i) ~> C5_Served(r, i)

\* The only receive of "B" was issued before the first send to "B" and
\* returned the message of that send.
C5_Witness ==
    /\ Len(recvs) = 1
    /\ recvs[1].agent = "B"
    /\ recvs[1].timeout = NoTimeout
    /\ "B" \in mixed
    /\ recvs[1].pc = "returned"
    /\ Len(SendOrder("B")) >= 1
    /\ recvs[1].result = SendOrder("B")[1]

\* C6: receive_message never raises; when it returns None its timeout T has
\* elapsed and no more than T + Slack; and a receive whose timeout has elapsed
\* waits for nothing but the event loop.
C6_TimeoutIsAbsence ==
    \A r \in 1..Len(recvs) :
        /\ recvs[r].ret # "raised"
        /\ recvs[r].ret = "None" =>
              /\ recvs[r].timeout # NoTimeout
              /\ recvs[r].timeout <= recvs[r].elapsed
              /\ recvs[r].elapsed <= recvs[r].timeout + Slack
        /\ (Timed(r) /\ recvs[r].elapsed >= recvs[r].timeout) =>
              ENABLED (\/ timer_fire(r) \/ wait_for_timeout(r) \/ get_cancelled(r)
                       \/ wait_for_return(r) \/ get_step(r))

\* A receive with a positive timeout on a queue nothing was sent to returned
\* None.
C6_Witness ==
    \E r \in 1..Len(recvs) :
        /\ recvs[r].timeout > 0
        /\ recvs[r].ret = "None"
        /\ SendOrder(recvs[r].agent) = <<>>
        /\ recvs[r].elapsed = recvs[r].timeout

\* The messages taken by the receive calls on a made before call r.
TakenBefore(a, r) ==
    Cardinality({x \in 1..(r - 1) : recvs[x].agent = a /\ recvs[x].ret = "message"})

\* C7: with the sends to R over and one receive of R at a time, a
\* receive_message(R, timeout=T), T >= 0, issued while a message is queued
\* returns the head of the queue, never None.
C7_TimeoutFindsQueuedMessage ==
    \A r \in 1..Len(recvs) :
        LET a == recvs[r].agent
            k == TakenBefore(a, r) + 1
        IN  ( /\ recvs[r].pc = "returned"
              /\ recvs[r].timeout >= 0
              /\ a \notin mixed
              /\ a \notin shared
              /\ k <= Len(SendOrder(a)) )
            => /\ recvs[r].ret = "message"
               /\ recvs[r].result = SendOrder(a)[k]
               /\ recvs[r].result.sender_agent_id = sends[recvs[r].result.oid].msg.sender_agent_id

\* The same holds of the timeouts T > 0.
C7_PositiveTimeoutFindsQueuedMessage ==
    \A r \in 1..Len(recvs) :
        LET a == recvs[r].agent
            k == TakenBefore(a, r) + 1
        IN  ( /\ recvs[r].pc = "returned"
              /\ recvs[r].timeout > 0
              /\ a \notin mixed
              /\ a \notin shared
              /\ k <= Len(SendOrder(a)) )
            => /\ recvs[r].ret = "message"
               /\ recvs[r].result = SendOrder(a)[k]

\* Every message is queued, pushed and taken under its recipient_agent_id.
C10_RoutedByRecipient ==
    /\ \A a \in DOMAIN queues : \A m \in Queued(a) : m.recipient_agent_id = a
    /\ \A e \in Range(enqLog) : e.key = e.msg.recipient_agent_id
    /\ \A r \in 1..Len(recvs) :
          recvs[r].get = "got" => recvs[r].result.recipient_agent_id = recvs[r].agent
    /\ \A e \in Range(cbLog) :
          /\ e.key = e.msg.recipient_agent_id
          /\ e.cb = sends[e.call].reg

\* A send_message leaves the queues of the agents it is not sent to, and the
\* absence of one, as they were.
C10_OtherQueuesUnchanged ==
    Len(sends') > Len(sends) =>
        \A a \in AgentIds \ {sends'[Len(sends')].msg.recipient_agent_id} :
            /\ (a \in DOMAIN queues) <=> (a \in DOMAIN queues')
            /\ a \in DOMAIN queues => queues'[a] = queues[a]

\* C10: a message is queued, pushed to a callback and returned under its
\* recipient_agent_id alone, whatever its sender, type and payload, and a
\* send_message to R leaves the queue of every other agent as it was.
C10_SoleRoutingKey ==
    /\ []C10_RoutedByRecipient
    /\ [][C10_OtherQueuesUnchanged]_vars

\* "A" has a callback and a waiting receive; a message from "A" to "B" was
\* pushed to the callback of "B" and returned by receive_message("B") alone.
C10_Witness ==
    /\ Len(sends) = 1
    /\ sends[1].msg.sender_agent_id = "A"
    /\ sends[1].msg.recipient_agent_id = "B"
    /\ "A" \in DOMAIN callbacks
    /\ Len(cbLog) = 1
    /\ cbLog[1].key = "B"
    /\ Len(recvs) = 2
    /\ \E r \in 1..2 : recvs[r].agent = "A" /\ recvs[r].get = "waiting"
    /\ \E r \in 1..2 : recvs[r].agent = "B" /\ recvs[r].result = sends[1].msg

\* ------------------------------------------------------------- any str id
\* recipient_agent_id: str is all that A2AMessage declares of the recipient,
\* and agent_id: str all that receive_message does: the empty string passes.
EmptyRecipient ==
    [sender_agent_id |-> "A", recipient_agent_id |-> "",
     message_type |-> "status", payload |-> "dict"]

OpenEnvelopeInputs == EnvelopeInputs \cup {EmptyRecipient}

\* The communicator called with any str as an agent id, no callback
\* registered.
OpenNext ==
    \/ \E f \in OpenEnvelopeInputs : send_message(f, "returned")
    \/ \E a \in StrIds : receive_message(a, NoTimeout)
    \/ \E r \in 1..MaxReceives : get_step(r)

OpenSpec == Init /\ [][OpenNext]_vars

\* C11: no envelope with an empty recipient_agent_id is constructed, passed
\* to send_message or held in a queue, and no queue is keyed by the empty
\* string.
C11_RecipientNonEmpty ==
    /\ "" \notin DOMAIN queues
    /\ \A a \in DOMAIN queues : \A m \in Queued(a) : m.recipient_agent_id # ""
    /\ \A i \in 1..Len(sends) : sends[i].msg.recipient_agent_id # ""
    /\ \A e \in Range(enqLog) : e.key # ""

\* ------------------------------------------------------------- envelope objects
\* A2AMessage is a pydantic BaseModel with no frozen configuration, so a
\* field of an envelope can be assigned; line 21 queues the object itself
\* and line 24 hands the same object to the callback.
Assign(obj, value) == [obj EXCEPT !.message_type = value]

\* The queue as it reads once the object oid has the fields obj.
Aliased(q, obj) ==
    [q EXCEPT !.items = [k \in 1..Len(q.items) |->
                            IF q.items[k].oid = obj.oid THEN obj ELSE q.items[k]]]

\* The suspended callback of send call i resumes and assigns a field of the
\* envelope it was called with.
callback_assign(i) ==
    /\ i \in 1..Len(sends)
    /\ sends[i].cb = "running"
    /\ sends[i].obj.message_type # "handled"
    /\ LET obj == Assign(sends[i].obj, "handled")
       IN  /\ sends' = [sends EXCEPT ![i].obj = obj]
           /\ queues' = [a \in DOMAIN queues |-> Aliased(queues[a], obj)]
    /\ UNCHANGED <<outside, callbacks, recvs, cbLog, enqLog, retLog, lastReg,
                   mixed, shared>>

\* The communicator with callbacks that write to the envelope they are given.
PushNext ==
    \/ \E f \in EnvelopeInputs, o \in CallbackReturns : send_message(f, o)
    \/ \E i \in 1..MaxSends : callback_done(i, "returned")
    \/ \E i \in 1..MaxSends : callback_assign(i)
    \/ \E reg \in RegisterInputs : register_callback(reg[1], reg[2])
    \/ \E a \in AgentIds : receive_message(a, NoTimeout)
    \/ \E r \in 1..MaxReceives : get_step(r)

PushSpec == Init /\ [][PushNext]_vars

\* C12: an envelope in a queue has the fields it was passed to send_message
\* with, and an envelope that receive_message returned was returned with
\* those fields, whatever sends, receives, registrations and callback
\* executions took place in between.
C12_EnvelopeImmutable ==
    /\ \A a \in DOMAIN queues :
          \A m \in Queued(a) : m = sends[m.oid].msg
    /\ \A r \in 1..Len(recvs) :
          (recvs[r].pc = "returned" /\ recvs[r].ret = "message") =>
              recvs[r].result = sends[recvs[r].result.oid].msg

\* The same with callbacks that only read the envelope: send_message,
\* receive_message and register_callback assign no field of an envelope.
C12_CommunicatorKeepsEnvelope ==
    /\ \A i \in 1..Len(sends) : sends[i].obj = sends[i].msg
    /\ C12_EnvelopeImmutable

\* ------------------------------------------------------------- claims C13 to C18
\* The receive calls on a that hold a message they took from the queue.
Takers(a) == {r \in 1..Len(recvs) : recvs[r].agent = a /\ recvs[r].get = "got"}

\* C13: a send_message to a recipient id seen in no earlier send, receive or
\* registration returns without raising, leaves that id with a queue, and its
\* message stays queued until a receive_message for the id takes it: it is
\* the first message taken from that queue, and the result of a first call
\* without timeout.
C13_UnknownRecipient ==
    \A i \in 1..Len(sends) :
        sends[i].first =>
            LET a == sends[i].msg.recipient_agent_id
            IN  /\ sends[i].cb = "none"
                /\ sends[i].pc = "returned"
                /\ a \in DOMAIN queues
                /\ SendOrder(a)[1] = sends[i].msg
                /\ sends[i].msg \in Queued(a) \cup Taken(a)
                /\ Takers(a) # {} =>
                      \E r \in Takers(a) : recvs[r].result = sends[i].msg
                /\ \A r \in 1..Len(recvs) :
                      ( /\ ReceiveCalls(a) # <<>>
                        /\ ReceiveCalls(a)[1] = r
                        /\ recvs[r].timeout = NoTimeout
                        /\ recvs[r].pc = "returned" )
                      => recvs[r].result = sends[i].msg

\* The first operation on "B" was a send, and a later receive_message("B")
\* with a timeout returned its message.
C13_Witness ==
    /\ Len(sends) >= 1
    /\ sends[1].first
    /\ sends[1].msg.recipient_agent_id = "B"
    /\ \E r \in 1..Len(recvs) :
          /\ recvs[r].agent = "B"
          /\ recvs[r].timeout > 0
          /\ recvs[r].pc = "returned"
          /\ recvs[r].result = sends[1].msg

\* The ids that were a recipient of a send_message or the agent of a
\* receive_message.
Used ==
    {sends[i].msg.recipient_agent_id : i \in 1..Len(sends)}
        \cup {recvs[r].agent : r \in 1..Len(recvs)}

C14_Registered == DOMAIN queues = Used

C14_NeverRemoved == DOMAIN queues \subseteq DOMAIN queues'

\* C14: the registry has a queue for exactly the ids that were a recipient
\* of a send_message or the agent of a receive_message so far (none at the
\* start, none by register_callback), and no step removes a queue.
C14_RegistryLifecycle ==
    /\ []C14_Registered
    /\ [][C14_NeverRemoved]_vars

\* "A" has a callback and no queue; "B" got its queue by a send and keeps it
\* after a receive emptied it.
C14_Witness ==
    /\ lastReg["A"] # "none"
    /\ DOMAIN queues = {"B"}
    /\ Len(sends) = 1
    /\ queues["B"].items = <<>>
    /\ \E r \in 1..Len(recvs) : recvs[r].result = sends[1].msg

\* C15: with any number of receive_message(A) calls open at once, every
\* message sent to A is in the queue or was taken by exactly one call, no two
\* calls hold the same message, and no call waits on a queue that has a
\* message unless another call was woken for it.
C15_CompetingReceivers ==
    \A a \in DOMAIN queues :
        /\ \A r1, r2 \in Takers(a) :
              r1 # r2 => recvs[r1].result.oid # recvs[r2].result.oid
        /\ Range(SendOrder(a)) = Queued(a) \cup Taken(a)
        /\ Queued(a) \cap Taken(a) = {}
        /\ Len(queues[a].items) + Cardinality(Takers(a)) = Len(SendOrder(a))
        /\ ( /\ queues[a].items # <<>>
             /\ \E r \in 1..Len(recvs) :
                   recvs[r].agent = a /\ recvs[r].get = "waiting" )
           => \E r \in 1..Len(recvs) : recvs[r].agent = a /\ recvs[r].get = "woken"

\* Two receive_message("B") calls were open at once and each returned one of
\* the two messages sent to "B".
C15_Witness ==
    /\ "B" \in shared
    /\ Len(SendOrder("B")) = 2
    /\ Cardinality(Takers("B")) = 2
    /\ \A r \in Takers("B") : recvs[r].pc = "returned"
    /\ Queued("B") = {}

\* Every queue of the registry is still the queue it was: its items changed
\* by one put at the tail or one get at the head at most, and a getter that
\* keeps waiting is still among its getters.
C16_QueueKept ==
    \A a \in DOMAIN queues :
        /\ a \in DOMAIN queues'
        /\ LET old == queues[a].items
               new == queues'[a].items
           IN  \/ new = old
               \/ old # <<>> /\ new = Tail(old)
               \/ Len(new) = Len(old) + 1 /\ SubSeq(new, 1, Len(old)) = old

\* A receive that waits does so on the queue the registry holds for its
\* agent, and no message sent is lost.
C16_SameQueue ==
    /\ \A r \in 1..Len(recvs) :
          recvs[r].get = "waiting" =>
              r \in Range(queues[recvs[r].agent].getters)
    /\ \A a \in AgentIds :
          SendOrder(a) # <<>> =>
              /\ a \in DOMAIN queues
              /\ Range(SendOrder(a)) = Queued(a) \cup Taken(a)

\* C16: under every interleaving of send_message and receive_message at
\* their suspension points the lookup-or-create never replaces a queue, so a
\* first send and a first receive of one id that race use one queue and the
\* message sent is the one received.
C16_NoLockNeeded ==
    /\ []C16_SameQueue
    /\ [][C16_QueueKept]_vars

\* A receive_message("B") with a timeout was issued while the queue of "B"
\* did not exist or the first send to "B" was in its callback, and it
\* returned the message of that send.
C16_Witness ==
    /\ Len(recvs) = 1
    /\ recvs[1].agent = "B"
    /\ recvs[1].timeout > 0
    /\ "B" \in mixed
    /\ Len(SendOrder("B")) = 1
    /\ recvs[1].pc = "returned"
    /\ recvs[1].result = SendOrder("B")[1]

\* C17: while the callback of a send_message runs, its message is already
\* in the queue or taken, and no receive_message of the recipient is held
\* back for it: a call that is alone on its agent never waits while the
\* queue has a message. So a receive can return the message before the
\* callback is over and before send_message returns.
C17_CallbackDequeueRace ==
    \A i \in 1..Len(sends) :
        sends[i].pc = "callback" =>
            LET a == sends[i].msg.recipient_agent_id
            IN  /\ sends[i].cb = "running"
                /\ sends[i].msg \in Queued(a) \cup Taken(a)
                /\ a \notin shared =>
                      \A r \in 1..Len(recvs) :
                          (recvs[r].agent = a /\ recvs[r].get = "waiting") =>
                              queues[a].items = <<>>

\* receive_message returned the message of a send_message whose callback is
\* still suspended.
C17_Witness ==
    \E i \in 1..Len(sends), r \in 1..Len(recvs) :
        /\ sends[i].cb = "running"
        /\ sends[i].pc = "callback"
        /\ recvs[r].pc = "returned"
        /\ recvs[r].ret = "message"
        /\ recvs[r].result = sends[i].msg

\* C18: a send_message with no callback registered for its recipient has
\* returned, whatever the length of the queue; one that has not returned is
\* in its callback; and a queue nobody receives from holds every message
\* sent to it.
C18_NoBackpressure ==
    /\ \A i \in 1..Len(sends) :
          /\ sends[i].reg = "none" => sends[i].pc = "returned"
          /\ sends[i].pc # "returned" =>
                sends[i].pc = "callback" /\ sends[i].cb = "running"
    /\ \A a \in DOMAIN queues :
          /\ Len(queues[a].items) = Len(SendOrder(a)) - Cardinality(Takers(a))
          /\ ReceiveCalls(a) = <<>> => queues[a].items = SendOrder(a)

\* Two sends to "B", which has no callback and never receives, returned and
\* both messages are queued.
C18_Witness ==
    /\ Len(sends) = 2
    /\ lastReg["B"] = "none"
    /\ ReceiveCalls("B") = <<>>
    /\ Len(SendOrder("B")) = 2
    /\ Len(queues["B"].items) = 2
    /\ \A i \in 1..2 : sends[i].pc = "returned" /\ sends[i].cb = "none"

\* ------------------------------------------------------------- A2AMessage on the wire
\* Python values of the fields typed Any, and the JSON values they become.
PyStr(text) == [t |-> "str", v |-> text]
PyBool == [t |-> "bool", v |-> "true"]
PyNone == [t |-> "NoneType", v |-> "null"]
PyDict == [t |-> "dict", v |-> "{}"]
PyTuple == [t |-> "tuple", v |-> "1,2"]
PyDatetime(text) == [t |-> "datetime", v |-> text]

\* json.dumps of a value: a tuple is written as an array, a datetime as its
\* ISO 8601 text.
ToJson(value) ==
    [t |-> CASE value.t = "str" -> "string"
             [] value.t = "bool" -> "boolean"
             [] value.t = "NoneType" -> "null"
             [] value.t = "dict" -> "object"
             [] value.t \in {"tuple", "list"} -> "array"
             [] value.t = "datetime" -> "string",
     v |-> value.v]

\* json.loads of a value into a field typed Any.
FromJson(j) ==
    [t |-> CASE j.t = "string" -> "str"
             [] j.t = "boolean" -> "bool"
             [] j.t = "null" -> "NoneType"
             [] j.t = "object" -> "dict"
             [] j.t = "array" -> "list",
     v |-> j.v]

\* Line 30, timestamp: datetime: the text is parsed back to a datetime.
FromJsonDatetime(j) == [t |-> "datetime", v |-> j.v]

\* Lines 5-12 and 14-20: the payload models, their required field, and the
\* defaults of the others. Keys that are no field are ignored.
FitsRequest(d) ==
    /\ "task_type" \in DOMAIN d
    /\ d["task_type"].t = "str"
    /\ "parameters" \in DOMAIN d => d["parameters"].t = "dict"
    /\ "context" \in DOMAIN d => d["context"].t \in {"dict", "NoneType"}

AsRequest(d) ==
    [shape |-> "TaskRequestPayload",
     data |-> [k \in {"task_type", "parameters", "context"} |->
                  IF k \in DOMAIN d THEN d[k]
                  ELSE IF k = "parameters" THEN PyDict ELSE PyNone]]

FitsResponse(d) ==
    /\ "success" \in DOMAIN d
    /\ d["success"].t = "bool"
    /\ "error" \in DOMAIN d => d["error"].t \in {"str", "NoneType"}

AsResponse(d) ==
    [shape |-> "TaskResponsePayload",
     data |-> [k \in {"success", "result", "error"} |->
                  IF k \in DOMAIN d THEN d[k] ELSE PyNone]]

AsDict(d) == [shape |-> "dict", data |-> d]

\* Line 29, Union[TaskRequestPayload, TaskResponsePayload, Dict[str, Any]]
\* validating a mapping: the members are tried in the order written and the
\* first that accepts it is taken.
Resolve(d) ==
    IF FitsRequest(d) THEN AsRequest(d)
    ELSE IF FitsResponse(d) THEN AsResponse(d)
    ELSE AsDict(d)

\* The pydantic major version installed: the repository pins none, and the
\* two differ in what the constructor does with a dict payload.
Pydantic == {"v1", "v2"}

\* A2AMessage(...) validating its payload argument: an instance of a payload
\* model is kept; a dict is coerced member by member by version 1 and kept
\* as the exact match of Dict[str, Any] by version 2.
ValidatePayload(payload, version) ==
    IF payload.shape # "dict" THEN payload
    ELSE IF version = "v1" THEN Resolve(payload.data)
    ELSE payload

\* The payloads an envelope is constructed with: an instance of each model
\* and dicts, one of which has the keys of a model and one a tuple.
PayloadInputs ==
    { AsRequest("task_type" :> PyStr("echo")),
      AsResponse("success" :> PyBool),
      AsDict("note" :> PyStr("hi")),
      AsDict("task_type" :> PyStr("echo")),
      AsDict("success" :> PyBool),
      AsDict("ids" :> PyTuple) }

NoMetadata == [shape |-> "NoneType", data |-> <<>>]

MetadataInputs == {NoMetadata, AsDict("trace" :> PyStr("t1"))}

TimestampInputs ==
    {PyDatetime("2024-05-01T10:00:00"), PyDatetime("2024-05-01T10:00:00.000001")}

\* The envelope A2AMessage(...) gives for the arguments.
Envelope(fields, payload, timestamp, metadata, version) ==
    [sender_agent_id |-> PyStr(fields.sender_agent_id),
     recipient_agent_id |-> PyStr(fields.recipient_agent_id),
     message_type |-> PyStr(fields.message_type),
     payload |-> ValidatePayload(payload, version),
     timestamp |-> timestamp,
     metadata |-> metadata]

DumpMapping(d) == [k \in DOMAIN d |-> ToJson(d[k])]

LoadMapping(o) == [k \in DOMAIN o |-> FromJson(o[k])]

\* The JSON text of an envelope: a payload model is written as the object of
\* its fields, as a dict is.
Dump(env) ==
    [sender_agent_id |-> ToJson(env.sender_agent_id),
     recipient_agent_id |-> ToJson(env.recipient_agent_id),
     message_type |-> ToJson(env.message_type),
     payload |-> DumpMapping(env.payload.data),
     timestamp |-> ToJson(env.timestamp),
     metadata |-> IF env.metadata.shape = "NoneType" THEN [t |-> "null", o |-> <<>>]
                  ELSE [t |-> "object", o |-> DumpMapping(env.metadata.data)]]

\* The envelope validated from a JSON text.
Load(json) ==
    [sender_agent_id |-> FromJson(json.sender_agent_id),
     recipient_agent_id |-> FromJson(json.recipient_agent_id),
     message_type |-> FromJson(json.message_type),
     payload |-> Resolve(LoadMapping(json.payload)),
     timestamp |-> FromJsonDatetime(json.timestamp),
     metadata |-> IF json.metadata.t = "null" THEN NoMetadata
                  ELSE AsDict(LoadMapping(json.metadata.o))]

construct(fields, payload, timestamp, metadata, version) ==
    /\ wire.stage = "none"
    /\ wire' = [stage |-> "constructed",
                given |-> payload,
                env |-> Envelope(fields, payload, timestamp, metadata, version)]
    /\ UNCHANGED <<communicator, agents, comms, others>>

serialize ==
    /\ wire.stage = "constructed"
    /\ wire' = [stage |-> "serialized", given |-> wire.given, env |-> wire.env,
                json |-> Dump(wire.env)]
    /\ UNCHANGED <<communicator, agents, comms, others>>

deserialize ==
    /\ wire.stage = "serialized"
    /\ wire' = [stage |-> "deserialized", given |-> wire.given, env |-> wire.env,
                json |-> wire.json, back |-> Load(wire.json)]
    /\ UNCHANGED <<communicator, agents, comms, others>>

WireNext ==
    \/ \E f \in EnvelopeInputs, p \in PayloadInputs, ts \in TimestampInputs,
          md \in MetadataInputs, version \in Pydantic :
            construct(f, p, ts, md, version)
    \/ serialize
    \/ deserialize

WireSpec == Init /\ [][WireNext]_vars

\* C19: an envelope that was serialized and deserialized is equal to the
\* original in every field, its payload of the same shape, for payloads of
\* the three shapes.
C19_RoundTrip ==
    wire.stage = "deserialized" => wire.back = wire.env

\* The JSON text of a dict payload with the keys of a payload model is the
\* text of that model, and a JSON array does not tell a tuple from a list:
\* the round trip does hold of the envelopes constructed from an instance of
\* a payload model or from a dict that fits no model and has no tuple.
C19_RoundTripOfPlainPayloads ==
    ( /\ wire.stage = "deserialized"
      /\ \/ wire.given.shape # "dict"
         \/ /\ ~FitsRequest(wire.given.data)
            /\ ~FitsResponse(wire.given.data)
            /\ \A k \in DOMAIN wire.given.data : wire.given.data[k].t # "tuple" )
    => wire.back = wire.env

\* ------------------------------------------------------------- AgentFactory
\* A2ACommunicator(): no queue yet; sent and received count the calls made
\* on the instance.
NewCommunicator == [queues |-> <<>>, sent |-> 0, received |-> 0]

\* agent_factory.py lines 97-102, with the in-memory backend:
\* `return A2ACommunicator()`, an instance made by the call. Gives the
\* instances there are after the call, the last being the one returned.
get_a2a_communicator(cs) == Append(cs, NewCommunicator)

\* agent_factory.py lines 137-170: the agent gets a2a=self.get_a2a_communicator().
create_agent(agent_id) ==
    /\ Len(comms) < MaxAgents
    /\ comms' = get_a2a_communicator(comms)
    /\ agents' = [a \in DOMAIN agents \cup {agent_id} |->
                     IF a = agent_id THEN [a2a |-> Len(comms'), inbox |-> <<>>]
                     ELSE agents[a]]
    /\ UNCHANGED <<communicator, wire, others>>

\* Agent x sends through its a2a: send_message on that instance, no callback
\* registered.
agent_send(x, fields) ==
    /\ x \in DOMAIN agents
    /\ fields.sender_agent_id = x
    /\ LET c == agents[x].a2a
           comm == comms[c]
           m == A2AMessage(fields, c * (MaxSends + 1) + comm.sent)
           key == RoutingKey(m)
           qs == setdefault(comm.queues, key)
       IN  /\ comm.sent < MaxSends
           /\ comms' = [comms EXCEPT ![c] =
                           [comm EXCEPT !.queues = [qs EXCEPT ![key].items = Put(@, m)],
                                        !.sent = @ + 1]]
    /\ UNCHANGED <<communicator, wire, agents, others>>

\* Agent y polls its a2a: receive_message(y, timeout=T), T > 0, on that
\* instance returns the head of its queue, or None once T has passed.
agent_receive(y) ==
    /\ y \in DOMAIN agents
    /\ LET c == agents[y].a2a
           comm == comms[c]
           qs == setdefault(comm.queues, y)
           q == qs[y]
       IN  /\ comm.received < MaxReceives
           /\ comms' = [comms EXCEPT ![c] =
                           [comm EXCEPT
                               !.queues = IF q.items = <<>> THEN qs
                                          ELSE [qs EXCEPT ![y].items = PopLeft(@).rest],
                               !.received = @ + 1]]
           /\ agents' = [agents EXCEPT ![y].inbox =
                            Append(@, IF q.items = <<>> THEN None
                                      ELSE PopLeft(q.items).item)]
    /\ UNCHANGED <<communicator, wire, others>>

FactoryNext ==
    \/ \E a \in AgentIds : create_agent(a)
    \/ \E x \in AgentIds, f \in EnvelopeInputs : agent_send(x, f)
    \/ \E y \in AgentIds : agent_receive(y)

FactorySpec == Init /\ [][FactoryNext]_vars

\* The messages queued for y in the communicator of agent x.
HeldFor(x, y) ==
    LET qs == comms[agents[x].a2a].queues
    IN  IF y \in DOMAIN qs THEN Range(qs[y].items) ELSE {}

\* C20: the agents created in the process hold one and the same
\* communicator, and a message an agent sent to agent B through its
\* communicator is in the queue of B in the communicator that B holds.
C20_OneCommunicatorPerProcess ==
    /\ \A x, y \in DOMAIN agents : agents[x].a2a = agents[y].a2a
    /\ \A x, y \in DOMAIN agents : HeldFor(x, y) \subseteq HeldFor(y, y)

\* ------------------------------------------------------- MemorySaverManager
\* The most memories add_memory saves in a run.
MaxMemories == 2

\* The largest limit passed to search_memory.
MaxLimit == 2

UserIds == {"u1", "u2"}

\* Strings are sequences of characters: "", "a", "ab".
Texts == {<<>>, <<"a">>, <<"a", "b">>}

\* The messages argument: None, or a list of one message {"content": "b"}.
MessagesInputs == {<<>>, << <<"b">> >>}

\* memory_id arguments: indices as strings, and one that is no number.
MemoryIds == {"0", "1", "-1", "x"}

\* The data argument of update_memory: a dict of the keys to overwrite.
DataInputs == {[content |-> <<"b">>], [user_id |-> "u2"]}

\* The variables outside the memory manager.
besidesMemory ==
    <<communicator, wire, agents, comms, limiter, endpoints, api, server>>

\* int(memory_id): the number the string writes, ValueError otherwise.
IntOf == ("0" :> 0) @@ ("1" :> 1) @@ ("-1" :> -1)

IsInt(memory_id) == memory_id \in DOMAIN IntOf

\* list[idx]: idx counts from the front when it is >= 0 and from the back
\* when it is negative; IndexError outside -len..len-1.
InRange(list, idx) == -Len(list) <= idx /\ idx < Len(list)

Position(list, idx) == IF idx >= 0 THEN idx + 1 ELSE Len(list) + idx + 1

\* int(memory_id) and the indexing both succeed.
Found(list, memory_id) == IsInt(memory_id) /\ InRange(list, IntOf[memory_id])

At(list, memory_id) == Position(list, IntOf[memory_id])

\* list.pop(idx): the list without the element at idx.
Pop(list, pos) == SubSeq(list, 1, pos - 1) \o SubSeq(list, pos + 1, Len(list))

\* query in text, for two strings.
Contains(text, query) ==
    \E k \in 0..(Len(text) - Len(query)) :
        SubSeq(text, k + 1, k + Len(query)) = query

\* The test search_memory makes on a memory when the query is not empty.
Matches(mem, query) ==
    \/ Contains(mem.content, query)
    \/ \E k \in 1..Len(mem.messages) : Contains(mem.messages[k], query)

\* The loop exit of search_memory: the length is tested after the append.
Full(results, limit) == Len(results) >= limit

\* The loop of search_memory from the k-th memory on.
RECURSIVE SearchFrom(_, _, _, _, _, _)
SearchFrom(all_memories, k, results, user_id, query, limit) ==
    IF k > Len(all_memories) THEN results
    ELSE LET mem == all_memories[k]
             appended ==
                 IF query # <<>> /\ ~Matches(mem, query) THEN results
                 ELSE Append(results, mem)
         IN  IF mem.user_id # user_id
             THEN SearchFrom(all_memories, k + 1, results, user_id, query, limit)
             ELSE IF Full(appended, limit) THEN appended
             ELSE SearchFrom(all_memories, k + 1, appended, user_id, query, limit)

Search(all_memories, user_id, query, limit) ==
    SearchFrom(all_memories, 1, <<>>, user_id, query, limit)

\* The list comprehension of get_all_memories.
RECURSIVE AllOf(_, _)
AllOf(all_memories, user_id) ==
    IF all_memories = <<>> THEN <<>>
    ELSE IF Head(all_memories).user_id = user_id
         THEN <<Head(all_memories)>> \o AllOf(Tail(all_memories), user_id)
         ELSE AllOf(Tail(all_memories), user_id)

\* dict.update(data): the keys of data overwrite those of the memory.
Update(mem, data) == data @@ mem

\* The call just made, and of the one before it what it was, its memory_id
\* and the memory it returned.
Replied(call) ==
    [last |-> call,
     before |-> [NoCall EXCEPT !.op = reply.last.op, !.id = reply.last.id,
                               !.result = reply.last.result]]

\* add_memory(user_id, content, messages): the dict gets the keys whose
\* argument is truthy (an absent content reads as "" in search_memory, an
\* absent messages as []), and the saver appends it.
add_memory(user_id, content, messages) ==
    /\ made < MaxMemories
    /\ made' = made + 1
    /\ store' = Append(store, [obj |-> made + 1, user_id |-> user_id,
                               content |-> content, messages |-> messages])
    /\ reply' = Replied([NoCall EXCEPT !.op = "add_memory", !.user_id = user_id])
    /\ UNCHANGED besidesMemory

search_memory(user_id, query, limit) ==
    /\ reply' = Replied([NoCall EXCEPT !.op = "search_memory",
                                       !.user_id = user_id, !.limit = limit,
                                       !.results = Search(store, user_id, query, limit)])
    /\ UNCHANGED <<besidesMemory, store, made>>

get_all_memories(user_id) ==
    /\ reply' = Replied([NoCall EXCEPT !.op = "get_all_memories",
                                       !.user_id = user_id,
                                       !.results = AllOf(store, user_id)])
    /\ UNCHANGED <<besidesMemory, store, made>>

get_memory(memory_id) ==
    /\ reply' = Replied([NoCall EXCEPT !.op = "get_memory", !.id = memory_id,
                                       !.result = IF Found(store, memory_id)
                                                  THEN store[At(store, memory_id)]
                                                  ELSE NoMemory])
    /\ UNCHANGED <<besidesMemory, store, made>>

update_memory(memory_id, data) ==
    /\ IF Found(store, memory_id)
       THEN LET pos == At(store, memory_id)
                updated == Update(store[pos], data)
            IN  /\ store' = [store EXCEPT ![pos] = updated]
                /\ reply' = Replied([NoCall EXCEPT !.op = "update_memory",
                                                   !.id = memory_id, !.result = updated])
       ELSE /\ store' = store
            /\ reply' = Replied([NoCall EXCEPT !.op = "update_memory", !.id = memory_id])
    /\ UNCHANGED <<besidesMemory, made>>

delete_memory(memory_id) ==
    /\ IF Found(store, memory_id)
       THEN LET pos == At(store, memory_id)
            IN  /\ store' = Pop(store, pos)
                /\ reply' = Replied([NoCall EXCEPT !.op = "delete_memory",
                                                   !.id = memory_id, !.result = store[pos]])
       ELSE /\ store' = store
            /\ reply' = Replied([NoCall EXCEPT !.op = "delete_memory", !.id = memory_id])
    /\ UNCHANGED <<besidesMemory, made>>

MemoryNext ==
    \/ \E u \in UserIds, c \in Texts, ms \in MessagesInputs : add_memory(u, c, ms)
    \/ \E u \in UserIds, q \in Texts, n \in 0..MaxLimit : search_memory(u, q, n)
    \/ \E u \in UserIds : get_all_memories(u)
    \/ \E i \in MemoryIds : get_memory(i)
    \/ \E i \in MemoryIds, d \in DataInputs : update_memory(i, d)
    \/ \E i \in MemoryIds : delete_memory(i)

MemorySpec == Init /\ [][MemoryNext]_vars

\* C21: when delete_memory(id) returned the memory it deleted, a
\* get_memory(id) that follows returns None, and the deleted memory is not
\* among the memories get_all_memories gives for its user.
C21_DeletedIsGone ==
    /\ (/\ reply.last.op = "get_memory"
        /\ reply.before.op = "delete_memory"
        /\ reply.before.id = reply.last.id
        /\ reply.before.result # NoMemory) => reply.last.result = NoMemory
    /\ (reply.last.op = "delete_memory" /\ reply.last.result # NoMemory) =>
           reply.last.result \notin Range(AllOf(store, reply.last.result.user_id))

\* C22: search_memory(user_id, query, limit) returns at most limit memories,
\* for every limit >= 0, and each memory it returns has the given user_id.
C22_SearchWithinLimit ==
    reply.last.op = "search_memory" =>
        /\ Len(reply.last.results) <= reply.last.limit
        /\ \A k \in 1..Len(reply.last.results) :
               reply.last.results[k].user_id = reply.last.user_id

\* The part of C22 for a limit of at least 1, and the owner of the results
\* for every limit.
C22_SearchWithinPositiveLimit ==
    reply.last.op = "search_memory" =>
        /\ reply.last.limit >= 1 => Len(reply.last.results) <= reply.last.limit
        /\ \A k \in 1..Len(reply.last.results) :
               reply.last.results[k].user_id = reply.last.user_id

\* The second part of C21 alone: the memory delete_memory returned is not
\* among those of its user.
C21_DeletedNotListed ==
    (reply.last.op = "delete_memory" /\ reply.last.result # NoMemory) =>
        reply.last.result \notin Range(AllOf(store, reply.last.result.user_id))

\* ------------------------------------------------- RedisManager.rate_limit
\* The limit and the period (seconds) the callers pass for the key.
Limit == 2

Period == 2

\* The variables outside the rate limiter.
besidesLimiter ==
    <<communicator, wire, agents, comms, memory, endpoints, api, server>>

\* count = self.client.get(redis_key); count = int(count) if count else 0
Count(key) == IF key.exists THEN key.value ELSE 0

\* INCR: an absent key is created with value 1 and no time to live, an
\* existing key keeps its time to live.
Incr(key) ==
    IF key.exists THEN [key EXCEPT !.value = @ + 1]
    ELSE [exists |-> TRUE, value |-> 1, ttl |-> NoExpiry]

\* EXPIRE key period.
Expire(key, period) == IF key.exists THEN [key EXCEPT !.ttl = period] ELSE key

\* The pipeline of rate_limit, run by Redis as one transaction: INCR, then
\* EXPIRE when the count read before was 0.
Execute(key, count, period) ==
    IF count = 0 THEN Expire(Incr(key), period) ELSE Incr(key)

\* rate_limit up to its read: GET, then False when the count has reached the
\* limit.
rate_limit_get(c) ==
    /\ callers[c].pc = "idle"
    /\ IF Count(counter) >= Limit
       THEN callers' = [callers EXCEPT ![c] = [Idle EXCEPT !.ret = "False"]]
       ELSE callers' = [callers EXCEPT ![c] = [pc |-> "read", count |-> Count(counter),
                                               ret |-> "none"]]
    /\ UNCHANGED <<besidesLimiter, counter, granted>>

\* rate_limit from pipe.execute() on: the increment, and True.
rate_limit_execute(c) ==
    /\ callers[c].pc = "read"
    /\ counter' = Execute(counter, callers[c].count, Period)
    /\ callers' = [callers EXCEPT ![c] = [Idle EXCEPT !.ret = "True"]]
    /\ granted' = granted + 1
    /\ UNCHANGED besidesLimiter

\* One second passes: Redis deletes the key when its time to live is over.
second ==
    /\ counter.exists /\ counter.ttl # NoExpiry
    /\ IF counter.ttl = 1
       THEN counter' = NoKey /\ granted' = 0
       ELSE counter' = [counter EXCEPT !.ttl = @ - 1] /\ granted' = granted
    /\ UNCHANGED <<besidesLimiter, callers>>

LimiterNext ==
    \/ \E c \in 1..MaxCallers : rate_limit_get(c)
    \/ \E c \in 1..MaxCallers : rate_limit_execute(c)
    \/ second

LimiterSpec == Init /\ [][LimiterNext]_vars

\* C23: within one window of the key (from its creation to its expiry) at
\* most Limit calls of rate_limit return True, however the reads and the
\* increments of the callers interleave.
C23_AtMostLimitPerWindow == granted <= Limit

\* C30: the counter key, whenever it exists, has a time to live of at most
\* Period seconds, under every interleaving of rate_limit calls and expiries.
C30_CounterAlwaysExpires ==
    counter.exists => counter.ttl # NoExpiry /\ counter.ttl <= Period

\* The part of C23 on calls made after the limit was reached: a call that
\* reads a count of Limit or more returns False and changes nothing.
C23_FullCounterRefuses ==
    [][\A c \in 1..MaxCallers :
         (rate_limit_get(c) /\ Count(counter) >= Limit) =>
             callers'[c].ret = "False" /\ counter' = counter]_vars

\* A limited key that has lost its time to live stays limited: no call
\* returns True any more.
C30_StuckLimited ==
    [][(counter.exists /\ counter.ttl = NoExpiry /\ counter.value >= Limit
        /\ \A c \in 1..MaxCallers : callers[c].pc = "idle")
       => (granted' = granted /\ counter' = counter)]_vars

\* ------------------------------------------------- api/agent_endpoints.py
\* The handlers with the in-memory storage: the part of each handler after
\* "Fall back to in-memory storage" (supabase_available is False, or the
\* Supabase call failed).
AgentKeys == {"a1", "a2"}

TeamKeys == {"t1", "t2"}

AgentNames == {"n1", "n2"}

\* The most agent ids a team request lists.
MaxTeamSize == 2

\* The lists of agent ids a team request carries (AgentTeam.agents is a
\* List[str]: an id can occur twice).
RECURSIVE ListsOver(_, _)
ListsOver(ids, n) ==
    IF n = 0 THEN {<<>>}
    ELSE ListsOver(ids, n - 1) \cup
         {Append(l, x) : l \in {m \in ListsOver(ids, n - 1) : Len(m) = n - 1}, x \in ids}

TeamInputs == ListsOver(AgentKeys, MaxTeamSize)

\* The variables outside api/agent_endpoints.py.
besidesEndpoints ==
    <<communicator, wire, agents, comms, memory, limiter, api, server>>

\* del d[key]
Del(d, key) == [k \in DOMAIN d \ {key} |-> d[k]]

\* The first agent id of the list that is no key of the storage; "" when
\* every id is one.
RECURSIVE FirstUnknown(_, _)
FirstUnknown(ids, known) ==
    IF ids = <<>> THEN ""
    ELSE IF Head(ids) \notin known THEN Head(ids)
    ELSE FirstUnknown(Tail(ids), known)

\* The validation loop of create_team and update_team passes.
AllKnown(ids, known) == FirstUnknown(ids, known) = ""

\* list.remove(x): the list without the first occurrence of x.
RECURSIVE Remove(_, _)
Remove(list, x) ==
    IF list = <<>> THEN <<>>
    ELSE IF Head(list) = x THEN Tail(list)
    ELSE <<Head(list)>> \o Remove(Tail(list), x)

\* x in list
In(x, list) == \E k \in 1..Len(list) : list[k] = x

\* The loop of delete_agent over teams_db.items().
RemoveFromTeams(teams, agent_id) ==
    [t \in DOMAIN teams |->
        IF In(agent_id, teams[t]) THEN Remove(teams[t], agent_id) ELSE teams[t]]

Answered(op, id, status) == [NoRequest EXCEPT !.op = op, !.id = id, !.status = status]

db_create_agent(id, name) ==
    /\ IF id \in DOMAIN agents_db
       THEN /\ agents_db' = agents_db
            /\ db_reply' = Answered("create_agent", id, 400)
       ELSE /\ agents_db' = (id :> name) @@ agents_db
            /\ db_reply' = Answered("create_agent", id, 200)
    /\ UNCHANGED <<besidesEndpoints, teams_db>>

db_update_agent(agent_id, id, name) ==
    /\ IF agent_id # id
       THEN /\ agents_db' = agents_db
            /\ db_reply' = Answered("update_agent", agent_id, 400)
       ELSE IF agent_id \notin DOMAIN agents_db
       THEN /\ agents_db' = agents_db
            /\ db_reply' = Answered("update_agent", agent_id, 404)
       ELSE /\ agents_db' = [agents_db EXCEPT ![agent_id] = name]
            /\ db_reply' = Answered("update_agent", agent_id, 200)
    /\ UNCHANGED <<besidesEndpoints, teams_db>>

db_delete_agent(agent_id) ==
    /\ IF agent_id \notin DOMAIN agents_db
       THEN /\ UNCHANGED <<agents_db, teams_db>>
            /\ db_reply' = Answered("delete_agent", agent_id, 404)
       ELSE /\ agents_db' = Del(agents_db, agent_id)
            /\ teams_db' = RemoveFromTeams(teams_db, agent_id)
            /\ db_reply' = Answered("delete_agent", agent_id, 200)
    /\ UNCHANGED besidesEndpoints

db_create_team(id, team_agents) ==
    /\ IF id \in DOMAIN teams_db \/ ~AllKnown(team_agents, DOMAIN agents_db)
       THEN /\ teams_db' = teams_db
            /\ db_reply' = Answered("create_team", id, 400)
       ELSE /\ teams_db' = (id :> team_agents) @@ teams_db
            /\ db_reply' = Answered("create_team", id, 200)
    /\ UNCHANGED <<besidesEndpoints, agents_db>>

db_update_team(team_id, id, team_agents) ==
    /\ IF team_id # id
       THEN /\ teams_db' = teams_db
            /\ db_reply' = Answered("update_team", team_id, 400)
       ELSE IF team_id \notin DOMAIN teams_db
       THEN /\ teams_db' = teams_db
            /\ db_reply' = Answered("update_team", team_id, 404)
       ELSE IF ~AllKnown(team_agents, DOMAIN agents_db)
       THEN /\ teams_db' = teams_db
            /\ db_reply' = Answered("update_team", team_id, 400)
       ELSE /\ teams_db' = [teams_db EXCEPT ![team_id] = team_agents]
            /\ db_reply' = Answered("update_team", team_id, 200)
    /\ UNCHANGED <<besidesEndpoints, agents_db>>

db_delete_team(team_id) ==
    /\ IF team_id \notin DOMAIN teams_db
       THEN /\ teams_db' = teams_db
            /\ db_reply' = Answered("delete_team", team_id, 404)
       ELSE /\ teams_db' = Del(teams_db, team_id)
            /\ db_reply' = Answered("delete_team", team_id, 200)
    /\ UNCHANGED <<besidesEndpoints, agents_db>>

EndpointsNext ==
    \/ \E a \in AgentKeys, n \in AgentNames : db_create_agent(a, n)
    \/ \E a, b \in AgentKeys, n \in AgentNames : db_update_agent(a, b, n)
    \/ \E a \in AgentKeys : db_delete_agent(a)
    \/ \E t \in TeamKeys, l \in TeamInputs : db_create_team(t, l)
    \/ \E t, u \in TeamKeys, l \in TeamInputs : db_update_team(t, u, l)
    \/ \E t \in TeamKeys : db_delete_team(t)

EndpointsSpec == Init /\ [][EndpointsNext]_vars

\* C28: every agent id listed in a team of teams_db is a key of agents_db,
\* and after delete_agent succeeded no team lists the deleted id.
C28_TeamMembersExist ==
    /\ \A t \in DOMAIN teams_db : \A k \in 1..Len(teams_db[t]) :
           teams_db[t][k] \in DOMAIN agents_db
    /\ (db_reply.op = "delete_agent" /\ db_reply.status = 200) =>
           \A t \in DOMAIN teams_db : ~In(db_reply.id, teams_db[t])

\* The part of C28 on rejection: a create_team or update_team that lists an
\* agent id that is no key of agents_db answers 400 and leaves teams_db as it
\* was.
C28_UnknownAgentRejected ==
    [][\A t \in TeamKeys, l \in TeamInputs :
         ((db_create_team(t, l) \/ db_update_team(t, t, l))
          /\ ~AllKnown(l, DOMAIN agents_db)) =>
             (teams_db' = teams_db /\ db_reply'.status \in {400, 404})]_vars

\* --------------------------------------------------------------- api.py
\* The most values uuid.uuid4() gives in a run.
MaxUuids == 2

\* The framework of an AgentRequest.
Frameworks == {"openai_agents", "langgraph", "hybrid"}

\* What factory.create_openai_agents_sdk_agent returns: an adapter, or None.
SdkOutcomes == {"agent", "None"}

\* The variables outside api.py.
besidesApi ==
    <<communicator, wire, agents, comms, memory, limiter, endpoints, server>>

\* f"agent-{uuid.uuid4()}" with the n-th value uuid4 gives.
AgentUuid(n) == "agent-" \o ToString(n)

\* The agent ids a team request to api.py lists: ids create_agent has given
\* or can give, and one it never gives.
StoreAgentIds == {AgentUuid(n) : n \in 1..MaxUuids} \cup {"ghost"}

StoreTeamInputs == ListsOver(StoreAgentIds, MaxTeamSize)

\* team_agents of send_message_to_team: the agents of the team that are in
\* agents_store.
RECURSIVE TeamAgents(_, _)
TeamAgents(agent_ids, known) ==
    IF agent_ids = <<>> THEN <<>>
    ELSE IF Head(agent_ids) \in known
         THEN <<Head(agent_ids)>> \o TeamAgents(Tail(agent_ids), known)
         ELSE TeamAgents(Tail(agent_ids), known)

\* create_agent of api.py: only an openai_agents agent is stored, under a
\* fresh id.
store_create_agent(framework, name, outcome) ==
    /\ uuids < MaxUuids
    /\ uuids' = uuids + 1
    /\ IF framework = "openai_agents" /\ outcome = "agent"
       THEN /\ agents_store' = (AgentUuid(uuids + 1) :> name) @@ agents_store
            /\ store_reply' = Answered("create_agent", AgentUuid(uuids + 1), 200)
       ELSE IF framework = "openai_agents"
       THEN /\ agents_store' = agents_store
            /\ store_reply' = Answered("create_agent", AgentUuid(uuids + 1), 500)
       ELSE /\ agents_store' = agents_store
            /\ store_reply' = Answered("create_agent", AgentUuid(uuids + 1), 200)
    /\ UNCHANGED <<besidesApi, teams_store>>

store_delete_agent(agent_id) ==
    /\ IF agent_id \notin DOMAIN agents_store
       THEN /\ agents_store' = agents_store
            /\ store_reply' = Answered("delete_agent", agent_id, 404)
       ELSE /\ agents_store' = Del(agents_store, agent_id)
            /\ store_reply' = Answered("delete_agent", agent_id, 200)
    /\ UNCHANGED <<besidesApi, teams_store, uuids>>

\* create_team of api.py with request.id given.
store_create_team(id, agent_ids) ==
    /\ IF ~AllKnown(agent_ids, DOMAIN agents_store)
       THEN /\ teams_store' = teams_store
            /\ store_reply' = Answered("create_team", id, 400)
       ELSE /\ teams_store' = (id :> agent_ids) @@ teams_store
            /\ store_reply' = Answered("create_team", id, 200)
    /\ UNCHANGED <<besidesApi, agents_store, uuids>>

store_update_team(team_id, agent_ids) ==
    /\ IF team_id \notin DOMAIN teams_store
       THEN /\ teams_store' = teams_store
            /\ store_reply' = Answered("update_team", team_id, 404)
       ELSE IF ~AllKnown(agent_ids, DOMAIN agents_store)
       THEN /\ teams_store' = teams_store
            /\ store_reply' = Answered("update_team", team_id, 400)
       ELSE /\ teams_store' = [teams_store EXCEPT ![team_id] = agent_ids]
            /\ store_reply' = Answered("update_team", team_id, 200)
    /\ UNCHANGED <<besidesApi, agents_store, uuids>>

store_delete_team(team_id) ==
    /\ IF team_id \notin DOMAIN teams_store
       THEN /\ teams_store' = teams_store
            /\ store_reply' = Answered("delete_team", team_id, 404)
       ELSE /\ teams_store' = Del(teams_store, team_id)
            /\ store_reply' = Answered("delete_team", team_id, 200)
    /\ UNCHANGED <<besidesApi, agents_store, uuids>>

\* send_message_to_team: the agents that get the message are those of the
\* team that are in agents_store.
store_send_message_to_team(team_id) ==
    /\ IF team_id \notin DOMAIN teams_store
       THEN store_reply' = Answered("send_message_to_team", team_id, 404)
       ELSE store_reply' =
                [Answered("send_message_to_team", team_id, 200) EXCEPT
                    !.listed = teams_store[team_id],
                    !.ran = TeamAgents(teams_store[team_id], DOMAIN agents_store)]
    /\ UNCHANGED <<besidesApi, agents_store, teams_store, uuids>>

ApiNext ==
    \/ \E f \in Frameworks, n \in AgentNames, o \in SdkOutcomes :
          store_create_agent(f, n, o)
    \/ \E a \in StoreAgentIds : store_delete_agent(a)
    \/ \E t \in TeamKeys, l \in StoreTeamInputs : store_create_team(t, l)
    \/ \E t \in TeamKeys, l \in StoreTeamInputs : store_update_team(t, l)
    \/ \E t \in TeamKeys : store_delete_team(t)
    \/ \E t \in TeamKeys : store_send_message_to_team(t)

ApiSpec == Init /\ [][ApiNext]_vars

\* C29: every agent id listed in a team of teams_store is a key of
\* agents_store, and send_message_to_team runs every agent the team lists.
C29_StoreTeamMembersExist ==
    /\ \A t \in DOMAIN teams_store : \A k \in 1..Len(teams_store[t]) :
           teams_store[t][k] \in DOMAIN agents_store
    /\ (store_reply.op = "send_message_to_team" /\ store_reply.status = 200) =>
           store_reply.ran = store_reply.listed

\* The part of C29 on rejection: a create_team or update_team of api.py that
\* lists an agent id that is no key of agents_store answers 400 (404 when
\* the team to update is unknown) and leaves teams_store as it was.
C29_UnknownAgentRejected ==
    [][\A t \in TeamKeys, l \in StoreTeamInputs :
         ((store_create_team(t, l) \/ store_update_team(t, l))
          /\ ~AllKnown(l, DOMAIN agents_store)) =>
             (teams_store' = teams_store /\ store_reply'.status \in {400, 404})]_vars

\* ------------------------------------------------------- custom_server.py
\* The most invoke_graph calls of a run.
MaxInvocations == 2

\* FrameworkMode, and the mode values a request can carry: the three members
\* and one that is none.
FrameworkMode == {"langgraph", "openai_agents", "hybrid"}

ModeInputs == FrameworkMode \cup {"crewai"}

\* The variables outside custom_server.py.
besidesServer ==
    <<communicator, wire, agents, comms, memory, limiter, endpoints, api>>

\* A server whose handlers ignore the stored mode.
FrameworkDefault(env) == "langgraph"

\* os.environ.get("FRAMEWORK", "langgraph").lower(): the members of
\* FrameworkMode are lower case already.
Framework(env) == IF env = Unset THEN "langgraph" ELSE env

\* The branch invoke_graph takes for the mode it read.
Dispatch(framework_mode) ==
    IF framework_mode = "openai_agents" THEN "openai_agents"
    ELSE IF framework_mode = "hybrid" THEN "hybrid"
    ELSE "langgraph"

\* The ways a branch of invoke_graph ends. AgentFactory has no method
\* _create_openai_agent, so the OpenAI branches end in the fall back to
\* graph.ainvoke (ImportError, or any exception in hybrid mode) or in HTTP
\* 500; the LangGraph branch ends with the graph's result or HTTP 500.
Outcomes(branch) ==
    IF branch = "openai_agents" THEN {"langgraph_fallback", "500"}
    ELSE IF branch = "hybrid" THEN {"langgraph_fallback", "500"}
    ELSE {"langgraph", "500"}

\* The mode in force: that of the last successful POST /config/mode, the
\* default before the first.
InForce == IF posted = "none" THEN "langgraph" ELSE posted

\* POST /config/mode: a value that is no member of FrameworkMode is refused
\* by the request validation (422) before the handler runs.
set_mode(mode) ==
    /\ IF mode \in FrameworkMode
       THEN environ' = mode /\ posted' = mode
       ELSE UNCHANGED <<environ, posted>>
    /\ UNCHANGED <<besidesServer, health, invocations>>

\* GET /health: the handler has no await, it reads the mode and answers.
health_check ==
    /\ health' = [asked |-> TRUE, framework |-> Framework(environ),
                  inforce |-> InForce]
    /\ UNCHANGED <<besidesServer, environ, posted, invocations>>

\* invoke_graph up to its first await: the mode is read in the handler's
\* first statement and the branch is taken on it.
invoke_graph ==
    /\ Len(invocations) < MaxInvocations
    /\ invocations' = Append(invocations,
           [mode |-> Framework(environ), inforce |-> InForce,
            branch |-> Dispatch(Framework(environ)), pc |-> "processing",
            outcome |-> "none"])
    /\ UNCHANGED <<besidesServer, environ, posted, health>>

\* The processing of an invocation ends.
invoke_graph_return(i, outcome) ==
    /\ i \in 1..Len(invocations)
    /\ invocations[i].pc = "processing"
    /\ outcome \in Outcomes(invocations[i].branch)
    /\ invocations' = [invocations EXCEPT ![i].pc = "returned",
                                          ![i].outcome = outcome]
    /\ UNCHANGED <<besidesServer, environ, posted, health>>

ServerNext ==
    \/ \E m \in ModeInputs : set_mode(m)
    \/ health_check
    \/ invoke_graph
    \/ \E i \in 1..MaxInvocations,
          o \in {"langgraph", "langgraph_fallback", "500"} :
          invoke_graph_return(i, o)

ServerSpec == Init /\ [][ServerNext]_vars

\* C24: once a POST /config/mode with mode f has succeeded, /health reports
\* framework = f until the next successful mode change, and every
\* invoke_graph call takes the branch of the mode in force when it started,
\* whatever the mode is set to while it runs.
C24_ModeLastWriteWins ==
    /\ (health.asked /\ posted # "none") => health.framework = health.inforce
    /\ posted # "none" => Framework(environ) = posted
    /\ \A i \in 1..Len(invocations) :
           /\ invocations[i].branch = Dispatch(invocations[i].inforce)
           /\ invocations[i].outcome \in Outcomes(Dispatch(invocations[i].inforce)) \cup {"none"}

\* Reached: /health answered hybrid after the mode was set twice, while an
\* invocation that started under openai_agents is still being processed on
\* that branch.
C24_Witness ==
    /\ health.asked /\ health.framework = "hybrid" /\ posted = "hybrid"
    /\ Len(invocations) >= 1
    /\ invocations[1].inforce = "openai_agents"
    /\ invocations[1].branch = "openai_agents"
    /\ invocations[1].pc = "processing"

\* ------------------------------------------------- callbacks that raise
\* The communicator with callbacks that return, suspend or raise, and
\* receive_message called without a timeout.
RaisingNext ==
    \/ \E f \in EnvelopeInputs, o \in CallbackOutcomes : send_message(f, o)
    \/ \E i \in 1..MaxSends : callback_done(i, "returned")
    \/ \E i \in 1..MaxSends : callback_done(i, "raised")
    \/ \E reg \in RegisterInputs : register_callback(reg[1], reg[2])
    \/ \E a \in AgentIds : receive_message(a, NoTimeout)
    \/ \E r \in 1..MaxReceives : get_step(r)

RaisingSpec == Init /\ [][RaisingNext]_vars

\* A send_message whose callback raised: the exception reached the caller,
\* the message was put once and is in the queue unless a receive took it,
\* the recipient still has a callback, and every later send to the recipient
\* put its message and invoked the callback registered then.
C25_NotRolledBack ==
    \A i \in 1..Len(sends) :
        sends[i].cb = "raised" =>
            LET a == sends[i].msg.recipient_agent_id
            IN  /\ sends[i].pc = "raised"
                /\ Len(PutsOf(i)) = 1
                /\ sends[i].msg \in Queued(a) \cup Taken(a)
                /\ a \in DOMAIN callbacks
                /\ callbacks[a] = lastReg[a]
                /\ \A j \in (i + 1)..Len(sends) :
                      sends[j].msg.recipient_agent_id = a =>
                          /\ Len(PutsOf(j)) = 1
                          /\ Len(InvocationsOf(j)) = 1
                          /\ InvocationsOf(j)[1].cb = sends[j].reg
                          /\ sends[j].msg \in Queued(a) \cup Taken(a)

\* The step in which a suspended callback raises changes neither a queue nor
\* the callback table.
C25_RaiseChangesNothing ==
    (\E i \in 1..Len(sends) : sends[i].cb = "running" /\ sends'[i].cb = "raised")
        => (queues' = queues /\ callbacks' = callbacks)

\* C25: when the callback registered for R raises during send_message, the
\* exception propagates to the caller, the message stays enqueued for R until
\* a receive_message(R) returns it, the callback stays registered and later
\* sends to R enqueue and invoke the callback as usual.
C25_CallbackFailure ==
    /\ []C25_NotRolledBack
    /\ [][C25_RaiseChangesNothing]_vars

\* The callback of the first send to "B" raised, a receive_message("B")
\* returned that message afterwards, and the second send to "B" invoked the
\* callback, which returned.
C25_Witness ==
    /\ Len(sends) = 2
    /\ sends[1].cb = "raised"
    /\ sends[1].msg.recipient_agent_id = "B"
    /\ sends[2].msg.recipient_agent_id = "B"
    /\ sends[2].cb = "returned"
    /\ Len(InvocationsOf(2)) = 1
    /\ \E r \in 1..Len(recvs) :
          recvs[r].pc = "returned" /\ recvs[r].result = sends[1].msg

\* ------------------------------------------------- message conservation
\* The receive_message(a) calls that returned a message.
ReturnedTo(a) ==
    {r \in 1..Len(recvs) :
        recvs[r].agent = a /\ recvs[r].pc = "returned" /\ recvs[r].ret = "message"}

\* The receive_message(a) calls whose queue.get() has taken a message that
\* wait_for has not handed to the caller yet.
Holding(a) ==
    {r \in 1..Len(recvs) :
        recvs[r].agent = a /\ recvs[r].pc # "returned" /\ recvs[r].get = "got"}

QueueLen(a) == IF a \in DOMAIN queues THEN Len(queues[a].items) ELSE 0

\* A receive_message that returned None took no message, and one whose
\* queue.get() took a message returns it.
C26_EmptyResultRemovedNothing ==
    \A r \in 1..Len(recvs) :
        recvs[r].pc = "returned" =>
            /\ recvs[r].ret = "None" => recvs[r].get # "got"
            /\ recvs[r].get = "got" =>
                  recvs[r].ret = "message" /\ recvs[r].result \in Range(SendOrder(recvs[r].agent))

\* C26 as stated: for every agent id A the number of messages sent to A is
\* the number of messages receive_message(A) returned plus the number in the
\* queue of A, and a receive_message that returned None removed no message.
C26_MessageConservation ==
    /\ \A a \in AgentIds :
          Len(SendOrder(a)) = Cardinality(ReturnedTo(a)) + QueueLen(a)
    /\ C26_EmptyResultRemovedNothing

\* C26, amended: for every agent id A the number of messages sent to A is the
\* number receive_message(A) returned, plus the number in the queue of A, plus
\* the number taken by a receive_message(A, timeout=T) whose wait_for has not
\* returned yet; such a call returns the message it took; and a
\* receive_message that returned None removed no message.
C26_ConservationWithHeld ==
    /\ \A a \in AgentIds :
          /\ Len(SendOrder(a)) =
                 Cardinality(ReturnedTo(a)) + QueueLen(a) + Cardinality(Holding(a))
          /\ \A r \in Holding(a) : recvs[r].timeout # NoTimeout
    /\ C26_EmptyResultRemovedNothing

\* Two messages were sent to "B"; a receive_message("B", timeout=T), T > 0,
\* ran out and returned None, and a second call holds the first message,
\* taken and not returned yet, while the other is queued.
C26_Witness ==
    /\ Len(SendOrder("B")) = 2
    /\ Len(recvs) = 2
    /\ recvs[1].agent = "B" /\ recvs[1].timeout > 0
    /\ recvs[1].pc = "returned" /\ recvs[1].ret = "None"
    /\ Holding("B") = {2}
    /\ QueueLen("B") = 1

\* ------------------------------------------------- register_callback frame
\* A step that changes the callback table changes nothing else of the
\* communicator: no queue, no message, no call, no callback invocation.
C27_OnlyTheTable ==
    (callbacks' # callbacks \/ lastReg' # lastReg) =>
        /\ queues' = queues
        /\ sends' = sends
        /\ recvs' = recvs
        /\ cbLog' = cbLog
        /\ enqLog' = enqLog
        /\ retLog' = retLog
        /\ \A a \in DOMAIN callbacks :
              a \in DOMAIN callbacks' /\ (lastReg'[a] = lastReg[a] => callbacks'[a] = callbacks[a])

\* Every callback invocation was made by the send_message of its message,
\* with the callback registered when that send was called, also for a send
\* whose callback is still running after the registration was replaced.
C27_StartedWith ==
    /\ \A k \in 1..Len(cbLog) :
          /\ cbLog[k].call \in 1..Len(sends)
          /\ cbLog[k].cb = sends[cbLog[k].call].reg
          /\ cbLog[k].msg = sends[cbLog[k].call].msg
    /\ \A i \in 1..Len(sends) : Len(InvocationsOf(i)) <= 1

\* C27: register_callback changes only the callback table: it leaves every
\* queue and the set of queues as they were, invokes the new callback for no
\* message sent before, and a send whose callback runs while the registration
\* is replaced completes with the callback it started with.
C27_RegisterFrame ==
    /\ []C27_StartedWith
    /\ [][C27_OnlyTheTable]_vars

\* A message for "B" was sent with no callback registered and is queued, a
\* second send to "B" started c1, which is still running, and c2 has replaced
\* c1 since: the only invocation made is that of c1 for the second message.
C27_Witness ==
    /\ Len(sends) = 2
    /\ sends[1].msg.recipient_agent_id = "B" /\ sends[1].reg = "none"
    /\ sends[2].msg.recipient_agent_id = "B" /\ sends[2].reg = "c1"
    /\ sends[2].cb = "running"
    /\ "B" \in DOMAIN callbacks /\ callbacks["B"] = "c2"
    /\ QueueLen("B") = 2
    /\ Len(cbLog) = 1 /\ cbLog[1].cb = "c1"
====
